---- MODULE Spec2Model ----
(***************************************************************************)
(* Model of the review loop of coder_team_1.py: main() drives              *)
(* manager -> (coder -> two concurrent critics -> save -> judge)* ->       *)
(* reporter, appending to the module-level conversation_log.               *)
(*                                                                         *)
(* Texts are sequences of one-character strings, so that str.lower(),      *)
(* str.strip(), concatenation and the substring test `in` are computed    *)
(* the way the code computes them.                                         *)
(***************************************************************************)
EXTENDS Integers, Sequences, FiniteSets, TLC

\* ---------------------------------------------------------------------
\* Bounds of the model
\* ---------------------------------------------------------------------
\* largest value of CONFIG["max_review_iterations"] that is explored
MaxIterBound == 3

\* ---------------------------------------------------------------------
\* Text helpers (Python str operations)
\* ---------------------------------------------------------------------
UpperAlpha == <<"A","B","C","D","E","F","G","H","I","J","K","L","M","N","O","P","Q","R","S","T","U","V","W","X","Y","Z">>

LowerAlpha == <<"a","b","c","d","e","f","g","h","i","j","k","l","m","n","o","p","q","r","s","t","u","v","w","x","y","z">>

Whitespace == {" ", "\n", "\t"}

\* the value of a Python name that holds no text
None == <<"None">>

LowerCharIdentity(c) == c

\* one character of str.lower()
LowerChar(c) ==
    IF \E i \in 1..26 : UpperAlpha[i] = c
    THEN LowerAlpha[CHOOSE i \in 1..26 : UpperAlpha[i] = c]
    ELSE c

\* str.lower()
Lower(s) == [i \in 1..Len(s) |-> LowerChar(s[i])]

\* str.strip(): drop leading and trailing whitespace
Strip(s) ==
    LET keep == {i \in 1..Len(s) : s[i] \notin Whitespace}
    IN  IF keep = {} THEN <<>>
        ELSE LET lo == CHOOSE i \in keep : \A j \in keep : i <= j
                 hi == CHOOSE i \in keep : \A j \in keep : j <= i
             IN  SubSeq(s, lo, hi)

\* Python `sub in s` for strings
StrIn(sub, s) ==
    \E i \in 1..(Len(s) - Len(sub) + 1) : SubSeq(s, i, i + Len(sub) - 1) = sub

\* ---------------------------------------------------------------------
\* String literals of the program
\* ---------------------------------------------------------------------
NL == <<"\n">>

ErrManager == <<"A","n"," ","e","r","r","o","r"," ","o","c","c","u","r","r","e","d"," ","i","n"," ","m","a","n","a","g","e","r","_","f","u","n","c","t","i","o","n",":"," ">>

ErrCoder == <<"A","n"," ","e","r","r","o","r"," ","o","c","c","u","r","r","e","d"," ","i","n"," ","c","o","d","e","r","_","f","u","n","c","t","i","o","n",":"," ">>

ErrBojack == <<"A","n"," ","e","r","r","o","r"," ","o","c","c","u","r","r","e","d"," ","i","n"," ","b","o","j","a","c","k","_","h","o","r","s","e","m","a","n","_","f","u","n","c","t","i","o","n",":"," ">>

ErrMrPeanut == <<"A","n"," ","e","r","r","o","r"," ","o","c","c","u","r","r","e","d"," ","i","n"," ","m","r","_","p","e","a","n","u","t","_","b","u","t","t","e","r","_","f","u","n","c","t","i","o","n",":"," ">>

ErrJudge == <<"A","n"," ","e","r","r","o","r"," ","o","c","c","u","r","r","e","d"," ","i","n"," ","j","u","d","g","e","_","f","u","n","c","t","i","o","n",":"," ">>

ErrReporter == <<"A","n"," ","e","r","r","o","r"," ","o","c","c","u","r","r","e","d"," ","i","n"," ","r","e","p","o","r","t","e","r","_","f","u","n","c","t","i","o","n",":"," ">>


SyntaxPrefix == <<"S","y","n","t","a","x"," ","e","r","r","o","r"," ","d","e","t","e","c","t","e","d",":"," ">>

RunErrPrefix == <<"E","r","r","o","r"," ","r","u","n","n","i","n","g"," ","c","o","d","e",":"," ">>

ReportSaved == <<"R","e","p","o","r","t"," ","s","a","v","e","d"," ","s","u","c","c","e","s","s","f","u","l","l","y"," ","t","o"," ",".","/","o","u","t","p","u","t","/","r","e","p","o","r","t",".","t","x","t","\n","\n","R","e","p","o","r","t",":","\n">>

MarkerAchieved == <<"a","c","h","i","e","v","e","d">>

MarkerFinalSummary == <<"f","i","n","a","l"," ","s","u","m","m","a","r","y">>

\* ---------------------------------------------------------------------
\* Behaviours of the external collaborators that are explored
\* ---------------------------------------------------------------------
\* messages of the exceptions the external calls raise
ExcTimeout == <<"t","i","m","e","o","u","t">>

ExcAchieved == <<"g","o","a","l"," ","a","c","h","i","e","v","e","d">>

\* raw contents returned by the judge model
JudgeUpper == <<"G","o","a","l"," ","A","C","H","I","E","V","E","D","\n">>

JudgeFinal == <<"F","i","n","a","l"," ","S","u","m","m","a","r","y",":"," ","o","k">>

\* a revision instruction that comes close to both markers
JudgeRevise == <<" ","a","c","h","i","e","v","e"," ","f","i","n","a","l","\n","s","u","m","m","a","r","y">>

\* raw contents returned by the other models
PlanText == <<"p","l","a","n","\n">>

CodeText == <<"x","=","1">>

CriticalText == <<"b","a","d">>

FavorableText == <<" ","g","o","o","d">>

ReportText == <<"-"," ","r","e","p">>

\* an outcome of client.chat.completions.create(...): the content of the
\* first choice, or the exception it raised
Returned(t) == [ok |-> TRUE, text |-> t]

Raised(m) == [ok |-> FALSE, text |-> m]

ManagerOutcomes == {Returned(PlanText), Raised(ExcTimeout)}

CoderOutcomes == {Returned(CodeText), Raised(ExcTimeout)}

BojackOutcomes == {Returned(CriticalText), Raised(ExcTimeout)}

MrPeanutOutcomes == {Returned(FavorableText), Raised(ExcTimeout)}

JudgeOutcomes ==
    {Returned(JudgeUpper), Returned(JudgeFinal), Returned(JudgeRevise),
     Raised(ExcAchieved)}

ReporterOutcomes == {Returned(ReportText), Raised(ExcTimeout)}

\* outcomes of writing under ./output: os.makedirs may raise, open/write
\* may raise, or both succeed
StoreOutcomes == {"ok", "makedirs_fails", "write_fails"}

\* outcomes of py_compile.compile(script_path, doraise=True)
CompileOutcomes == {"ok", "PyCompileError", "OSError"}

\* outcomes of subprocess.run(..., timeout=CONFIG["api_timeout"])
RunOutcomes ==
    {[ok |-> TRUE, stdout |-> <<"4">>, stderr |-> <<"w">>],
     [ok |-> FALSE, stdout |-> ExcTimeout, stderr |-> <<>>]}

\* messages of the exceptions raised by the file system and the compiler
ExcDenied == <<"d","e","n","i","e","d">>

ExcSyntax == <<"b","a","d"," ","s","y","n","t","a","x">>

\* ---------------------------------------------------------------------
\* The LLM functions, as functions of the outcome of their external calls
\* ---------------------------------------------------------------------
manager_function(resp) ==
    IF resp.ok THEN Strip(resp.text) ELSE ErrManager \o resp.text

\* the exception that reaches coder_function's outer handler, if any
CoderOuterError(gen, store, compile) ==
    IF ~gen.ok THEN gen.text
    ELSE IF store # "ok" THEN ExcDenied
    ELSE IF compile = "OSError" THEN ExcDenied
    ELSE None

coder_function_appends_syntax(gen, store, compile, run) ==
    IF CoderOuterError(gen, store, compile) # None
    THEN [code |-> <<>>, output |-> ErrCoder \o CoderOuterError(gen, store, compile)]
    ELSE LET code_text == Strip(gen.text)
             syntax_error == IF compile = "PyCompileError"
                             THEN SyntaxPrefix \o ExcSyntax ELSE <<>>
             ran == IF run.ok THEN run.stdout \o NL \o run.stderr
                    ELSE RunErrPrefix \o run.stdout
             execution_output == IF syntax_error # <<>>
                                 THEN ran \o NL \o syntax_error ELSE ran
         IN  [code |-> code_text, output |-> execution_output]

coder_function(gen, store, compile, run) ==
    IF CoderOuterError(gen, store, compile) # None
    THEN [code |-> <<>>, output |-> ErrCoder \o CoderOuterError(gen, store, compile)]
    ELSE LET code_text == Strip(gen.text)
             syntax_error == IF compile = "PyCompileError"
                             THEN SyntaxPrefix \o ExcSyntax ELSE <<>>
             ran == IF run.ok THEN run.stdout \o NL \o run.stderr
                    ELSE RunErrPrefix \o run.stdout
             execution_output == IF syntax_error # <<>>
                                 THEN syntax_error \o NL \o ran ELSE ran
         IN  [code |-> code_text, output |-> execution_output]

\* the places of coder_function where an exception was raised in a call
\* with these outcomes, in program order up to the first one that ends it
CoderRaised(gen, store, compile, run) ==
    IF ~gen.ok THEN {"coder.generate"}
    ELSE IF store = "makedirs_fails" THEN {"coder.makedirs"}
    ELSE IF store = "write_fails" THEN {"coder.write"}
    ELSE IF compile = "OSError" THEN {"coder.compile"}
    ELSE (IF compile = "PyCompileError" THEN {"coder.syntax"} ELSE {})
         \cup (IF run.ok THEN {} ELSE {"coder.run"})

bojack_horseman_function_unhandled(resp) ==
    IF resp.ok THEN Strip(resp.text) ELSE None

bojack_horseman_function(resp) ==
    IF resp.ok THEN Strip(resp.text) ELSE ErrBojack \o resp.text

mr_peanut_butter_function(resp) ==
    IF resp.ok THEN Strip(resp.text) ELSE ErrMrPeanut \o resp.text

judge_function_marks_errors(resp) ==
    LET text == IF resp.ok THEN Strip(resp.text) ELSE ErrJudge \o resp.text
    IN  [achieved |-> StrIn(MarkerAchieved, Lower(text))
                      \/ StrIn(MarkerFinalSummary, Lower(text)),
         instruction |-> text]

judge_function(resp) ==
    IF resp.ok
    THEN LET judge_response == Strip(resp.text)
         IN  [achieved |-> StrIn(MarkerAchieved, Lower(judge_response))
                           \/ StrIn(MarkerFinalSummary, Lower(judge_response)),
              instruction |-> judge_response]
    ELSE [achieved |-> FALSE, instruction |-> ErrJudge \o resp.text]

reporter_function(resp, store) ==
    IF ~resp.ok THEN ErrReporter \o resp.text
    ELSE IF store # "ok" THEN ErrReporter \o ExcDenied
    ELSE ReportSaved \o Strip(resp.text)

UncaughtRun(site) == site \in {"save_feedback.makedirs", "coder.run"}

\* the places whose exceptions no handler catches: os.makedirs in
\* save_feedback_function precedes its try block, and main has no handler
Uncaught(site) == site = "save_feedback.makedirs"

\* ---------------------------------------------------------------------
\* Entries of conversation_log
\* ---------------------------------------------------------------------
ManagerEntry == [kind |-> "manager", iteration |-> 0, body |-> <<>>]

CoderEntry(n) == [kind |-> "coder", iteration |-> n, body |-> <<>>]

FeedbackEntry(n) == [kind |-> "feedback", iteration |-> n, body |-> <<>>]

JudgeEntry(n, instruction) == [kind |-> "judge", iteration |-> n, body |-> instruction]

SuccessEntry == [kind |-> "success", iteration |-> 0, body |-> <<>>]

ExhaustedEntry == [kind |-> "exhausted", iteration |-> 0, body |-> <<>>]

ListPrepend(l, e) == <<e>> \o l

JoinLinesWithoutLast(l) == SubSeq(l, 1, Len(l) - 1)

JoinLinesRecent(l) == IF Len(l) > 3 THEN SubSeq(l, Len(l) - 2, Len(l)) ELSE l

\* lines 269 and 327: "\n".join(...) reads the list when it is called and
\* puts its entries, in list order, one per line, into the prompt text; the
\* prompt is kept here as the sequence of these lines
JoinLines(l) == [i \in 1..Len(l) |-> l[i]]

\* list.append
ListAppend(l, e) == Append(l, e)

\* ---------------------------------------------------------------------
\* State
\* ---------------------------------------------------------------------
VARIABLES
    pc,                     \* position of main()
    max_review_iterations,  \* CONFIG["max_review_iterations"]
    conversation_log,       \* the module-level list
    manager_outline,
    review_count,
    achieved,
    extra_instruction,
    coder_result,
    coder_args,             \* arguments of the latest coder_function call
    bojack_future,          \* the two executor futures of async_feedback_branch
    mr_peanut_future,
    feedback,
    judge_decision,
    judge_args,             \* arguments of the latest judge_function call
    judge_resp,             \* what the judge model did in that call
    report_result,
    reporter_args,          \* argument of the reporter_function call
    raised,                 \* places where the latest step raised an exception
    calls                   \* number of calls of each function so far

vars == <<pc, max_review_iterations, conversation_log, manager_outline,
          review_count, achieved, extra_instruction, coder_result, coder_args,
          bojack_future, mr_peanut_future, feedback, judge_decision,
          judge_args, judge_resp, report_result, reporter_args, raised, calls>>

Functions == {"manager", "coder", "bojack", "mr_peanut", "save", "judge", "reporter"}

NoFuture == [state |-> "none", data |-> [code |-> None, output |-> None], result |-> None]

NoResult == [code |-> None, output |-> None]

NoFeedback == [negative_feedback |-> None, positive_feedback |-> None]

NoDecision == [achieved |-> FALSE, instruction |-> None]

NoCoderArgs == [plan |-> None, extra_instruction |-> None]

NoJudgeArgs == [manager_outline |-> None, coder_result |-> NoResult,
                feedback |-> NoFeedback, review_count |-> 0,
                conversation_history |-> <<>>, final |-> FALSE]

Init ==
    /\ pc = "manager"
    /\ max_review_iterations \in 1..MaxIterBound
    /\ conversation_log = <<>>
    /\ manager_outline = None
    /\ review_count = 0
    /\ achieved = FALSE
    /\ extra_instruction = None
    /\ coder_result = NoResult
    /\ coder_args = NoCoderArgs
    /\ bojack_future = NoFuture
    /\ mr_peanut_future = NoFuture
    /\ feedback = NoFeedback
    /\ judge_decision = NoDecision
    /\ judge_args = NoJudgeArgs
    /\ judge_resp = Raised(None)
    /\ report_result = None
    /\ reporter_args = None
    /\ raised = {}
    /\ calls = [f \in Functions |-> 0]

\* where main() goes after a step: to `next`, or out of the program when an
\* exception raised in the step has no handler
Proceed(sites, next) ==
    IF \E s \in sites : Uncaught(s) THEN "aborted" ELSE next

Called(f) == [calls EXCEPT ![f] = @ + 1]

\* ---------------------------------------------------------------------
\* main(), one action per step between two calls
\* ---------------------------------------------------------------------
\* lines 355-364: the plan, the first log entry, the loop variables
MainManager ==
    /\ pc = "manager"
    /\ \E resp \in ManagerOutcomes :
         /\ manager_outline' = manager_function(resp)
         /\ raised' = IF resp.ok THEN {} ELSE {"manager"}
    /\ conversation_log' = ListAppend(conversation_log, ManagerEntry)
    /\ review_count' = 1
    /\ achieved' = FALSE
    /\ extra_instruction' = <<>>
    /\ calls' = Called("manager")
    /\ pc' = Proceed(raised', "while")
    /\ UNCHANGED <<max_review_iterations, coder_result, coder_args,
                   bojack_future, mr_peanut_future, feedback, judge_decision,
                   judge_args, judge_resp, report_result, reporter_args>>

LoopConditionOffByOne == review_count <= max_review_iterations + 1 /\ ~achieved

\* line 366: the condition of the while loop
LoopCondition == review_count <= max_review_iterations /\ ~achieved

MainWhile ==
    /\ pc = "while"
    /\ pc' = IF LoopCondition THEN "coder" ELSE "after_loop"
    /\ raised' = {}
    /\ UNCHANGED <<max_review_iterations, conversation_log, manager_outline,
                   review_count, achieved, extra_instruction, coder_result,
                   coder_args, bojack_future, mr_peanut_future, feedback,
                   judge_decision, judge_args, judge_resp, report_result,
                   reporter_args, calls>>

CoderCallArgsSwapped ==
    [plan |-> extra_instruction, extra_instruction |-> manager_outline]

CoderCallArgsNoInstruction ==
    [plan |-> manager_outline, extra_instruction |-> <<>>]

\* line 369: the arguments of the coder_function call
CoderCallArgs ==
    [plan |-> manager_outline, extra_instruction |-> extra_instruction]

\* lines 369-373: generate, store, compile and run the code; log it
MainCoder ==
    /\ pc = "coder"
    /\ \E gen \in CoderOutcomes, store \in StoreOutcomes,
          compile \in CompileOutcomes, run \in RunOutcomes :
         /\ coder_result' = coder_function(gen, store, compile, run)
         /\ raised' = CoderRaised(gen, store, compile, run)
    /\ coder_args' = CoderCallArgs
    /\ conversation_log' = ListAppend(conversation_log, CoderEntry(review_count))
    /\ calls' = Called("coder")
    /\ pc' = Proceed(raised', "submit")
    /\ UNCHANGED <<max_review_iterations, manager_outline, review_count,
                   achieved, extra_instruction, bojack_future,
                   mr_peanut_future, feedback, judge_decision, judge_args,
                   judge_resp, report_result, reporter_args>>

\* lines 224-226: async_feedback_branch hands both critics to the executor
MainSubmit ==
    /\ pc = "submit"
    /\ bojack_future' = [state |-> "running", data |-> coder_result, result |-> None]
    /\ mr_peanut_future' = [state |-> "running", data |-> coder_result, result |-> None]
    /\ raised' = {}
    /\ pc' = "gather"
    /\ UNCHANGED <<max_review_iterations, conversation_log, manager_outline,
                   review_count, achieved, extra_instruction, coder_result,
                   coder_args, feedback, judge_decision, judge_args,
                   judge_resp, report_result, reporter_args, calls>>

\* lines 153-184, in an executor thread
BojackRuns ==
    /\ bojack_future.state = "running"
    /\ \E resp \in BojackOutcomes :
         /\ bojack_future' = [bojack_future EXCEPT
                                 !.state = "done",
                                 !.result = bojack_horseman_function(resp)]
         /\ raised' = IF resp.ok THEN {} ELSE {"bojack"}
    /\ calls' = Called("bojack")
    /\ UNCHANGED <<pc, max_review_iterations, conversation_log,
                   manager_outline, review_count, achieved, extra_instruction,
                   coder_result, coder_args, mr_peanut_future, feedback,
                   judge_decision, judge_args, judge_resp, report_result,
                   reporter_args>>

\* lines 187-216, in an executor thread
MrPeanutRuns ==
    /\ mr_peanut_future.state = "running"
    /\ \E resp \in MrPeanutOutcomes :
         /\ mr_peanut_future' = [mr_peanut_future EXCEPT
                                    !.state = "done",
                                    !.result = mr_peanut_butter_function(resp)]
         /\ raised' = IF resp.ok THEN {} ELSE {"mr_peanut"}
    /\ calls' = Called("mr_peanut")
    /\ UNCHANGED <<pc, max_review_iterations, conversation_log,
                   manager_outline, review_count, achieved, extra_instruction,
                   coder_result, coder_args, bojack_future, feedback,
                   judge_decision, judge_args, judge_resp, report_result,
                   reporter_args>>

GatherReadyAny ==
    bojack_future.state = "done" \/ mr_peanut_future.state = "done"

\* line 227: asyncio.gather resumes main once both futures are done
GatherReady ==
    bojack_future.state = "done" /\ mr_peanut_future.state = "done"

GatherResultSwapped ==
    [negative_feedback |-> mr_peanut_future.result,
     positive_feedback |-> bojack_future.result]

\* lines 227-228: the results in the order of the awaitables
GatherResult ==
    [negative_feedback |-> bojack_future.result,
     positive_feedback |-> mr_peanut_future.result]

\* lines 227-228 and 376-380: join the two results, log the critique
MainGather ==
    /\ pc = "gather"
    /\ GatherReady
    /\ feedback' = GatherResult
    /\ conversation_log' = ListAppend(conversation_log, FeedbackEntry(review_count))
    /\ raised' = {}
    /\ pc' = "save"
    /\ UNCHANGED <<max_review_iterations, manager_outline, review_count,
                   achieved, extra_instruction, coder_result, coder_args,
                   bojack_future, mr_peanut_future, judge_decision,
                   judge_args, judge_resp, report_result, reporter_args, calls>>

\* the places of save_feedback_function that raise under a store outcome
SaveRaised(store) ==
    IF store = "makedirs_fails" THEN {"save_feedback.makedirs"}
    ELSE IF store = "write_fails" THEN {"save_feedback.write"}
    ELSE {}

\* line 383 and lines 231-246: the return value is discarded
MainSaveFeedback ==
    /\ pc = "save"
    /\ \E store \in StoreOutcomes : raised' = SaveRaised(store)
    /\ calls' = Called("save")
    /\ pc' = Proceed(raised', "judge")
    /\ UNCHANGED <<max_review_iterations, conversation_log, manager_outline,
                   review_count, achieved, extra_instruction, coder_result,
                   coder_args, bojack_future, mr_peanut_future, feedback,
                   judge_decision, judge_args, judge_resp, report_result,
                   reporter_args>>

FinalReviewEarly == review_count >= max_review_iterations - 1

\* line 270: the prompt asks for a final summary
FinalReview == review_count >= max_review_iterations

\* lines 386-388: the judge's decision and its log entry
MainJudge ==
    /\ pc = "judge"
    /\ \E resp \in JudgeOutcomes :
         /\ judge_resp' = resp
         /\ judge_decision' = judge_function(resp)
         /\ raised' = IF resp.ok THEN {} ELSE {"judge"}
    /\ judge_args' = [manager_outline |-> manager_outline,
                      coder_result |-> coder_result,
                      feedback |-> feedback,
                      review_count |-> review_count,
                      conversation_history |-> JoinLines(conversation_log),
                      final |-> FinalReview]
    /\ conversation_log' = ListAppend(conversation_log,
                               JudgeEntry(review_count, judge_decision'.instruction))
    /\ calls' = Called("judge")
    /\ pc' = Proceed(raised', "decide")
    /\ UNCHANGED <<max_review_iterations, manager_outline, review_count,
                   achieved, extra_instruction, coder_result, coder_args,
                   bojack_future, mr_peanut_future, feedback, report_result,
                   reporter_args>>

MainDecideNoBreak ==
    /\ pc = "decide"
    /\ IF judge_decision.achieved
       THEN /\ achieved' = TRUE
            /\ conversation_log' = ListAppend(conversation_log, SuccessEntry)
            /\ pc' = "while"
            /\ UNCHANGED <<extra_instruction, review_count>>
       ELSE /\ extra_instruction' = judge_decision.instruction
            /\ review_count' = review_count + 1
            /\ pc' = "while"
            /\ UNCHANGED <<achieved, conversation_log>>
    /\ raised' = {}
    /\ UNCHANGED <<max_review_iterations, manager_outline, coder_result,
                   coder_args, bojack_future, mr_peanut_future, feedback,
                   judge_decision, judge_args, judge_resp, report_result,
                   reporter_args, calls>>

MainDecideAlwaysCounts ==
    /\ pc = "decide"
    /\ IF judge_decision.achieved
       THEN /\ achieved' = TRUE
            /\ conversation_log' = ListAppend(conversation_log, SuccessEntry)
            /\ pc' = "after_loop"
            /\ review_count' = review_count + 1
            /\ UNCHANGED extra_instruction
       ELSE /\ extra_instruction' = judge_decision.instruction
            /\ review_count' = review_count + 1
            /\ pc' = "while"
            /\ UNCHANGED <<achieved, conversation_log>>
    /\ raised' = {}
    /\ UNCHANGED <<max_review_iterations, manager_outline, coder_result,
                   coder_args, bojack_future, mr_peanut_future, feedback,
                   judge_decision, judge_args, judge_resp, report_result,
                   reporter_args, calls>>

\* lines 390-399: stop on success, else carry the instruction over
MainDecide ==
    /\ pc = "decide"
    /\ IF judge_decision.achieved
       THEN /\ achieved' = TRUE
            /\ conversation_log' = ListAppend(conversation_log, SuccessEntry)
            /\ pc' = "after_loop"
            /\ UNCHANGED <<extra_instruction, review_count>>
       ELSE /\ extra_instruction' = judge_decision.instruction
            /\ review_count' = review_count + 1
            /\ pc' = "while"
            /\ UNCHANGED <<achieved, conversation_log>>
    /\ raised' = {}
    /\ UNCHANGED <<max_review_iterations, manager_outline, coder_result,
                   coder_args, bojack_future, mr_peanut_future, feedback,
                   judge_decision, judge_args, judge_resp, report_result,
                   reporter_args, calls>>

ExhaustedNoteAlways(l) == ListAppend(l, ExhaustedEntry)

\* lines 401-404: the entry of an exhausted bound, unless achieved
ExhaustedNote(l) == IF ~achieved THEN ListAppend(l, ExhaustedEntry) ELSE l

MainAfterLoop ==
    /\ pc = "after_loop"
    /\ conversation_log' = ExhaustedNote(conversation_log)
    /\ raised' = {}
    /\ pc' = "reporter"
    /\ UNCHANGED <<max_review_iterations, manager_outline, review_count,
                   achieved, extra_instruction, coder_result, coder_args,
                   bojack_future, mr_peanut_future, feedback, judge_decision,
                   judge_args, judge_resp, report_result, reporter_args, calls>>

\* lines 407-408: the report
MainReporter ==
    /\ pc = "reporter"
    /\ \E resp \in ReporterOutcomes, store \in {"ok", "write_fails"} :
         /\ report_result' = reporter_function(resp, store)
         /\ raised' = IF ~resp.ok THEN {"reporter"}
                      ELSE IF store # "ok" THEN {"reporter.write"} ELSE {}
    /\ reporter_args' = JoinLines(conversation_log)
    /\ calls' = Called("reporter")
    /\ pc' = Proceed(raised', "done")
    /\ UNCHANGED <<max_review_iterations, conversation_log, manager_outline,
                   review_count, achieved, extra_instruction, coder_result,
                   coder_args, bojack_future, mr_peanut_future, feedback,
                   judge_decision, judge_args, judge_resp>>

Next ==
    \/ MainManager
    \/ MainWhile
    \/ MainCoder
    \/ MainSubmit
    \/ BojackRuns
    \/ MrPeanutRuns
    \/ MainGather
    \/ MainSaveFeedback
    \/ MainJudge
    \/ MainDecide
    \/ MainAfterLoop
    \/ MainReporter

Spec == Init /\ [][Next]_vars

\* every call returns or fails, and the event loop keeps running main
FairSpec == Spec /\ WF_vars(Next)

TypeOK ==
    /\ pc \in {"manager", "while", "coder", "submit", "gather", "save",
               "judge", "decide", "after_loop", "reporter", "done", "aborted"}
    /\ max_review_iterations \in 1..MaxIterBound
    /\ review_count \in 0..(max_review_iterations + 1)
    /\ achieved \in BOOLEAN
    /\ bojack_future.state \in {"none", "running", "done"}
    /\ mr_peanut_future.state \in {"none", "running", "done"}

\* ---------------------------------------------------------------------
\* Vocabulary of the properties
\* ---------------------------------------------------------------------
\* the same letter, in either case
SameLetter(a, b) ==
    \/ a = b
    \/ \E k \in 1..26 : (a = UpperAlpha[k] /\ b = LowerAlpha[k])
    \/ \E k \in 1..26 : (a = LowerAlpha[k] /\ b = UpperAlpha[k])

\* `phrase` occurs in `text`, whatever the case of the letters
ContainsIgnoringCase(phrase, text) ==
    \E i \in 1..Len(text) :
        /\ i + Len(phrase) - 1 <= Len(text)
        /\ \A j \in 1..Len(phrase) : SameLetter(text[i + j - 1], phrase[j])

\* the judge model answered in the latest judgment step and its answer
\* holds a marker phrase
JudgeMatched ==
    /\ judge_resp.ok
    /\ \/ ContainsIgnoringCase(MarkerAchieved, judge_resp.text)
       \/ ContainsIgnoringCase(MarkerFinalSummary, judge_resp.text)

HasPrefix(t, p) == Len(t) >= Len(p) /\ SubSeq(t, 1, Len(p)) = p

Terminal(e) == e.kind \in {"success", "exhausted"}

KindCount(k) ==
    Cardinality({i \in 1..Len(conversation_log) : conversation_log[i].kind = k})

\* main() has left the loop, or the program
Ended == pc \in {"done", "aborted"}

\* ---------------------------------------------------------------------
\* C1: a run executes at most max_review_iterations generation cycles,
\* and once the loop is left (or the run is over) at least one.
\* ---------------------------------------------------------------------
C1_CycleBounds ==
    /\ calls["coder"] <= max_review_iterations
    /\ pc \in {"after_loop", "reporter", "done", "aborted"} => calls["coder"] >= 1

C1_Witness ==
    /\ pc = "done"
    /\ max_review_iterations >= 2
    /\ calls["coder"] = max_review_iterations

\* ---------------------------------------------------------------------
\* C2: achieved is true only when the judgment step of the current
\* iteration ran, the judge model answered, and its answer holds
\* "achieved" or "final summary" in any case; otherwise it is false.
\* ---------------------------------------------------------------------
C2_SatisfiedOnlyByMarker ==
    achieved =>
        /\ calls["judge"] = review_count
        /\ judge_args.review_count = review_count
        /\ JudgeMatched

C2_Witness ==
    /\ achieved
    /\ review_count >= 2
    /\ judge_resp = Returned(JudgeFinal)

\* ---------------------------------------------------------------------
\* C3: when the judge's answer of iteration k holds a marker, the run
\* stops there: achieved is set, exactly k generation, critique and
\* judgment steps have run and none runs later, the success entry follows
\* the judgment entry, and for k = 1 the final log is the five entries
\* plan, generate, critique, judgment, success.
\* ---------------------------------------------------------------------
C3_StopsOnMarker ==
    JudgeMatched =>
        LET k == judge_args.review_count
            n == Len(conversation_log)
        IN  /\ pc \in {"decide", "after_loop", "reporter", "done"}
            /\ bojack_future.state = "done" /\ mr_peanut_future.state = "done"
            /\ review_count = k
            /\ calls["coder"] = k /\ calls["judge"] = k
            /\ calls["bojack"] = k /\ calls["mr_peanut"] = k
            /\ pc # "decide" =>
                 /\ achieved
                 /\ conversation_log[n] = SuccessEntry
                 /\ conversation_log[n - 1] = JudgeEntry(k, Strip(judge_resp.text))
                 /\ k = 1 => conversation_log =
                               <<ManagerEntry, CoderEntry(1), FeedbackEntry(1),
                                 JudgeEntry(1, Strip(judge_resp.text)), SuccessEntry>>

C3_Witness ==
    /\ pc = "done"
    /\ judge_resp = Returned(JudgeUpper)
    /\ judge_args.review_count = 1
    /\ achieved
    /\ Len(conversation_log) = 5

\* ---------------------------------------------------------------------
\* C4: a run in which no judge answer held a marker has, when it is over,
\* executed exactly max_review_iterations full cycles, has achieved false
\* and has the bound-exhausted entry as its last log entry.
\* ---------------------------------------------------------------------
C4_ExhaustsBound ==
    (Ended /\ ~JudgeMatched) =>
        /\ calls["coder"] = max_review_iterations
        /\ calls["judge"] = max_review_iterations
        /\ ~achieved
        /\ conversation_log[Len(conversation_log)] = ExhaustedEntry

\* ---------------------------------------------------------------------
\* C5: the log is the plan entry, then per iteration one generation, one
\* critique and one judgment entry in that order, then at most one
\* terminal entry, which is last; a finished run of k cycles has 3k + 2
\* entries and ends with the success entry exactly when achieved.
\* ---------------------------------------------------------------------
C5_LogShape ==
    LET n == Len(conversation_log)
        PatternAt(i) ==
            IF i = 1 THEN conversation_log[i] = ManagerEntry
            ELSE LET j == (i + 1) \div 3
                     r == (i + 1) % 3
                 IN  CASE r = 0 -> conversation_log[i] = CoderEntry(j)
                       [] r = 1 -> conversation_log[i] = FeedbackEntry(j)
                       [] r = 2 -> /\ conversation_log[i].kind = "judge"
                                   /\ conversation_log[i].iteration = j
    IN  /\ \A i \in 1..n :
              IF Terminal(conversation_log[i])
              THEN i = n /\ i >= 5 /\ (i - 2) % 3 = 0
              ELSE PatternAt(i)
        /\ KindCount("manager") = calls["manager"]
        /\ KindCount("coder") = calls["coder"]
        /\ KindCount("judge") = calls["judge"]
        /\ pc \in {"reporter", "done"} =>
              /\ n = 3 * calls["coder"] + 2
              /\ Terminal(conversation_log[n])
              /\ (conversation_log[n] = SuccessEntry) <=> achieved

C5_Witness ==
    /\ pc = "done"
    /\ achieved
    /\ calls["coder"] = 2
    /\ Len(conversation_log) = 8

\* ---------------------------------------------------------------------
\* C6: every step leaves the previous log as a prefix of the new log, so
\* each entry keeps its position (its sequence number) for the whole run.
\* ---------------------------------------------------------------------
C6_AppendOnly ==
    [][/\ Len(conversation_log') >= Len(conversation_log)
       /\ SubSeq(conversation_log', 1, Len(conversation_log)) = conversation_log]_vars

C6_Witness ==
    /\ pc = "done"
    /\ ~achieved
    /\ Len(conversation_log) = 8

\* ---------------------------------------------------------------------
\* C7: once a critique has been joined, both fields of feedback hold a
\* text (the critic's answer or its error text), never no value.
\* ---------------------------------------------------------------------
C7_BothPopulated ==
    KindCount("feedback") >= 1 =>
        /\ feedback.negative_feedback # None
        /\ feedback.positive_feedback # None
        /\ \/ feedback.negative_feedback = Strip(CriticalText)
           \/ HasPrefix(feedback.negative_feedback, ErrBojack)
        /\ \/ feedback.positive_feedback = Strip(FavorableText)
           \/ HasPrefix(feedback.positive_feedback, ErrMrPeanut)

C7_Witness ==
    /\ pc = "save"
    /\ feedback = [negative_feedback |-> ErrBojack \o ExcTimeout,
                   positive_feedback |-> ErrMrPeanut \o ExcTimeout]

\* ---------------------------------------------------------------------
\* C8: a critic is running only while main awaits the join: the critique
\* entry of the iteration is not yet in the log, and neither the save
\* step nor the judgment step of that iteration has started.
\* ---------------------------------------------------------------------
C8_JoinWaitsForBoth ==
    (bojack_future.state = "running" \/ mr_peanut_future.state = "running") =>
        /\ pc = "gather"
        /\ conversation_log[Len(conversation_log)] = CoderEntry(review_count)
        /\ calls["save"] = review_count - 1
        /\ calls["judge"] = review_count - 1

C8_Witness ==
    /\ pc = "gather"
    /\ bojack_future.state = "running"
    /\ mr_peanut_future.state = "done"

\* ---------------------------------------------------------------------
\* C9: a step in which the plan, generation, execution, critic, judgment
\* or report call raised goes where it goes after a successful call, never
\* out of the program, and leaves the error text in the call's slot.
\* ---------------------------------------------------------------------
ExternalCallSites ==
    {"manager", "coder.generate", "coder.makedirs", "coder.write",
     "coder.compile", "coder.syntax", "coder.run", "bojack", "mr_peanut",
     "judge", "reporter", "reporter.write"}

C9_FailuresStayInBand ==
    [][(raised' \cap ExternalCallSites # {}) =>
         /\ pc' # "aborted"
         /\ pc' = CASE pc = "manager" -> "while"
                    [] pc = "coder" -> "submit"
                    [] pc = "judge" -> "decide"
                    [] pc = "reporter" -> "done"
                    [] OTHER -> pc
         /\ "manager" \in raised' => HasPrefix(manager_outline', ErrManager)
         /\ raised' \cap {"coder.generate", "coder.makedirs", "coder.write",
                          "coder.compile"} # {} =>
               /\ coder_result'.code = <<>>
               /\ HasPrefix(coder_result'.output, ErrCoder)
         /\ "coder.run" \in raised' => StrIn(RunErrPrefix, coder_result'.output)
         /\ "coder.syntax" \in raised' => HasPrefix(coder_result'.output, SyntaxPrefix)
         /\ "bojack" \in raised' =>
               /\ bojack_future'.state = "done"
               /\ HasPrefix(bojack_future'.result, ErrBojack)
         /\ "mr_peanut" \in raised' =>
               /\ mr_peanut_future'.state = "done"
               /\ HasPrefix(mr_peanut_future'.result, ErrMrPeanut)
         /\ "judge" \in raised' =>
               HasPrefix(judge_decision'.instruction, ErrJudge)
         /\ raised' \cap {"reporter", "reporter.write"} # {} =>
               HasPrefix(report_result', ErrReporter)]_vars

C9_Witness ==
    /\ pc = "done"
    /\ HasPrefix(manager_outline, ErrManager)
    /\ StrIn(RunErrPrefix, coder_result.output)
    /\ HasPrefix(feedback.negative_feedback, ErrBojack)
    /\ HasPrefix(feedback.positive_feedback, ErrMrPeanut)
    /\ HasPrefix(judge_decision.instruction, ErrJudge)
    /\ HasPrefix(report_result, ErrReporter)
    /\ calls["coder"] = max_review_iterations

\* ---------------------------------------------------------------------
\* C10: the save step, whatever fails in it, goes on to the judgment step
\* of the same iteration and leaves the log, the iteration counter, the
\* outcome and the critique as they were.
\* ---------------------------------------------------------------------
C10_SaveNeverAborts ==
    [][pc = "save" =>
         /\ pc' = "judge"
         /\ UNCHANGED <<conversation_log, review_count, achieved, feedback>>]_vars

Terminated == pc \in {"after_loop", "reporter", "done"}

C12_SatisfiedImpliesTerminated ==
    achieved =>
        /\ Terminated
        /\ calls["coder"] = review_count
        /\ bojack_future.state # "running"
        /\ mr_peanut_future.state # "running"

C12_Witness ==
    /\ Terminated
    /\ ~achieved
    /\ pc = "reporter"
    /\ conversation_log[Len(conversation_log)] = ExhaustedEntry

\* ---------------------------------------------------------------------
\* C13 as stated: review_count is 1 when the loop starts, every loop body
\* that runs to its end adds exactly 1, satisfied or not, and no other
\* step changes it.
\* ---------------------------------------------------------------------
C13_CountsEveryCycle ==
    [][/\ pc = "manager" => review_count' = 1
       /\ pc = "decide" => review_count' = review_count + 1
       /\ pc \notin {"manager", "decide"} => review_count' = review_count]_vars

\* ---------------------------------------------------------------------
\* C13 as amended: review_count is 1 when the loop starts, a loop body that
\* ends with an unsatisfied judgment adds exactly 1, a loop body that ends
\* satisfied leaves it unchanged, and no other step changes it; it never
\* decreases.
\* ---------------------------------------------------------------------
C13_CountsUnsatisfiedCycles ==
    [][/\ pc = "manager" => review_count' = 1
       /\ pc = "decide" =>
            review_count' = IF judge_decision.achieved
                            THEN review_count ELSE review_count + 1
       /\ pc \notin {"manager", "decide"} => review_count' = review_count
       /\ review_count' >= review_count]_vars

C13_Witness ==
    /\ pc = "after_loop"
    /\ achieved
    /\ calls["coder"] = 2
    /\ review_count = 2

\* ---------------------------------------------------------------------
\* C14: the plan is requested once, before the first cycle, no later step
\* changes it, and every coder and judge call gets that value, also when
\* it is the error text of a failed planning call.
\* ---------------------------------------------------------------------
C14_OnePlan ==
    [][/\ pc # "manager" =>
            /\ manager_outline' = manager_outline
            /\ calls'["manager"] = calls["manager"]
       /\ calls'["coder"] # calls["coder"] =>
            /\ calls["manager"] = 1
            /\ coder_args'.plan = manager_outline
       /\ calls'["judge"] # calls["judge"] =>
            /\ calls["manager"] = 1
            /\ judge_args'.manager_outline = manager_outline
       /\ calls'["manager"] <= 1]_vars

C14_Witness ==
    /\ manager_outline = ErrManager \o ExcTimeout
    /\ calls["coder"] = 2
    /\ coder_args.plan = ErrManager \o ExcTimeout
    /\ judge_args.review_count = 2
    /\ judge_args.manager_outline = ErrManager \o ExcTimeout

\* ---------------------------------------------------------------------
\* C15: the judgment step is told it is the final review exactly on the
\* iteration that equals max_review_iterations; its decision is still the
\* marker classification of the judge's answer, and a final review without
\* a marker ends with achieved false and the bound-exhausted entry.
\* ---------------------------------------------------------------------
C15_FinalFlagOnlyPrompts ==
    calls["judge"] >= 1 =>
        /\ judge_args.final <=> (judge_args.review_count = max_review_iterations)
        /\ judge_decision.achieved <=> JudgeMatched
        /\ (judge_args.final /\ Terminated) => (achieved <=> JudgeMatched)
        /\ (judge_args.final /\ ~JudgeMatched /\ pc \in {"reporter", "done"}) =>
              /\ ~achieved
              /\ conversation_log[Len(conversation_log)] = ExhaustedEntry

C15_Witness ==
    /\ pc = "done"
    /\ max_review_iterations >= 2
    /\ judge_args.final
    /\ judge_resp = Returned(JudgeRevise)
    /\ ~achieved

\* ---------------------------------------------------------------------
\* C16: a critic's failure leaves the other critic's future untouched and
\* puts that critic's own error text in its own result; the join puts the
\* critical result in negative_feedback and the favorable result in
\* positive_feedback, goes on to the save step, and the judgment step is
\* called with that feedback.
\* ---------------------------------------------------------------------
C16_IsolatedSlots ==
    [][/\ bojack_future'.state # bojack_future.state /\ pc = "gather" =>
            /\ mr_peanut_future' = mr_peanut_future
            /\ bojack_future'.result =
                 IF "bojack" \in raised' THEN ErrBojack \o ExcTimeout
                 ELSE Strip(CriticalText)
       /\ mr_peanut_future'.state # mr_peanut_future.state /\ pc = "gather" =>
            /\ bojack_future' = bojack_future
            /\ mr_peanut_future'.result =
                 IF "mr_peanut" \in raised' THEN ErrMrPeanut \o ExcTimeout
                 ELSE Strip(FavorableText)
       /\ pc = "gather" /\ pc' # "gather" =>
            /\ pc' = "save"
            /\ feedback'.negative_feedback = bojack_future.result
            /\ feedback'.positive_feedback = mr_peanut_future.result
            /\ feedback'.negative_feedback \in
                 {Strip(CriticalText), ErrBojack \o ExcTimeout}
            /\ feedback'.positive_feedback \in
                 {Strip(FavorableText), ErrMrPeanut \o ExcTimeout}
       /\ calls'["judge"] # calls["judge"] => judge_args'.feedback = feedback]_vars

C16_Witness ==
    /\ pc = "decide"
    /\ feedback = [negative_feedback |-> ErrBojack \o ExcTimeout,
                   positive_feedback |-> Strip(FavorableText)]
    /\ judge_args.feedback = feedback

\* ---------------------------------------------------------------------
\* C17: the instruction given to coder_function is empty on iteration 1
\* and on iteration i > 1 is the instruction of the judgment of iteration
\* i - 1, as the log records it, error text included.
\* ---------------------------------------------------------------------
C17_DirectiveFromPreviousJudgment ==
    calls["coder"] >= 1 =>
        LET i == calls["coder"]
        IN  IF i = 1 THEN coder_args.extra_instruction = <<>>
            ELSE /\ conversation_log[3 * i - 2].kind = "judge"
                 /\ conversation_log[3 * i - 2].iteration = i - 1
                 /\ coder_args.extra_instruction = conversation_log[3 * i - 2].body

C17_Witness ==
    /\ calls["coder"] = 3
    /\ conversation_log[4].body = Strip(JudgeRevise)
    /\ coder_args.extra_instruction = ErrJudge \o ExcAchieved

\* ---------------------------------------------------------------------
\* C18: when py_compile reports a syntax error, the output of the coder
\* result starts with the syntax-error text, and the text of the run
\* (stdout and stderr, or the run's error text) comes after it.
\* ---------------------------------------------------------------------
C18_SyntaxErrorFirst ==
    (pc = "submit" /\ "coder.syntax" \in raised) =>
        LET out == coder_result.output
            head == SyntaxPrefix \o ExcSyntax \o NL
            rest == SubSeq(out, Len(head) + 1, Len(out))
        IN  /\ HasPrefix(out, head)
            /\ ~StrIn(SyntaxPrefix, rest)
            /\ \E run \in RunOutcomes :
                 /\ run.ok <=> ("coder.run" \notin raised)
                 /\ rest = IF run.ok THEN run.stdout \o NL \o run.stderr
                           ELSE RunErrPrefix \o run.stdout

C18_Witness ==
    /\ pc = "submit"
    /\ raised = {"coder.syntax", "coder.run"}
    /\ HasPrefix(coder_result.output, SyntaxPrefix)

\* ---------------------------------------------------------------------
\* C19: in every run reporter_function is called exactly once, after the
\* loop has ended and the terminal entry is in the log, with the complete
\* final log.
\* ---------------------------------------------------------------------
C19_ReportedOnce ==
    /\ calls["reporter"] <= 1
    /\ calls["reporter"] = 1 =>
         /\ pc = "done"
         /\ reporter_args = conversation_log
         /\ Terminal(reporter_args[Len(reporter_args)])
    /\ Ended => calls["reporter"] = 1

\* ---------------------------------------------------------------------
\* C20: when every external call eventually returns or fails, every run
\* eventually has called the reporter and finished.
\* ---------------------------------------------------------------------
C20_Terminates == <>(pc = "done" /\ calls["reporter"] = 1)

\* ---------------------------------------------------------------------
\* C21: a judgment call that raised is classified as not achieved and its
\* instruction is the error text, whatever the message holds; a run in
\* which every judgment call raised has, when it is over, executed
\* max_review_iterations cycles and ends with the bound-exhausted entry.
\* ---------------------------------------------------------------------
EveryJudgmentFailed ==
    /\ calls["judge"] >= 1
    /\ \A i \in 1..Len(conversation_log) :
          conversation_log[i].kind = "judge" =>
              HasPrefix(conversation_log[i].body, ErrJudge)

C21_FailedJudgmentNeverSatisfies ==
    /\ (calls["judge"] >= 1 /\ ~judge_resp.ok) =>
          /\ ~judge_decision.achieved
          /\ judge_decision.instruction = ErrJudge \o judge_resp.text
          /\ ~achieved
    /\ (Ended /\ EveryJudgmentFailed) =>
          /\ calls["coder"] = max_review_iterations
          /\ calls["judge"] = max_review_iterations
          /\ ~achieved
          /\ conversation_log[Len(conversation_log)] = ExhaustedEntry

\* ---------------------------------------------------------------------
\* C22: the history the judgment step of iteration i reads has exactly 3i
\* entries: the plan entry, the generation, critique and judgment entries
\* of every earlier iteration, and the generation and critique entries of
\* iteration i; it holds neither the judgment entry of iteration i nor a
\* terminal entry.
\* ---------------------------------------------------------------------
C22_HistoryOfJudgment ==
    calls["judge"] >= 1 =>
        LET h == judge_args.conversation_history
            i == judge_args.review_count
        IN  /\ Len(h) = 3 * i
            /\ h[1] = ManagerEntry
            /\ \A j \in 1..i :
                  /\ h[3 * j - 1] = CoderEntry(j)
                  /\ h[3 * j] = FeedbackEntry(j)
            /\ \A j \in 1..(i - 1) :
                  /\ h[3 * j + 1].kind = "judge"
                  /\ h[3 * j + 1].iteration = j
            /\ \A n \in 1..Len(h) :
                  /\ ~Terminal(h[n])
                  /\ ~(h[n].kind = "judge" /\ h[n].iteration = i)

C22_Witness ==
    /\ pc = "decide"
    /\ calls["judge"] = 3
    /\ judge_args.review_count = 3
    /\ Len(judge_args.conversation_history) = 9
    /\ Len(conversation_log) = 10

====
